---- MODULE Spec2Model ----
(***************************************************************************)
(* vitest-drizzle-pg: the transaction coordinator (DrizzleEnvironmentContext*)
(* in context.ts), the lifecycle binder (setupDrizzleEnvironment in         *)
(* setup.ts) and the published vitestDrizzle.client getter, run by a test   *)
(* runner that awaits the beforeEach / afterEach hooks of every test.       *)
(*                                                                          *)
(* One step of the model is one synchronous segment of JavaScript (from one *)
(* await / callback boundary to the next) or one step of a collaborator     *)
(* (the database, the seed / cleanup routine, the test body).               *)
(* A transactional handle is named by the number of the test whose          *)
(* beginTransaction call opened it; NULL is JavaScript's null.              *)
(***************************************************************************)
EXTENDS Integers, Sequences, FiniteSets, TLC

\* number of tests the runner executes in sequence
NumTests == 2

Tests == 1..NumTests

\* number of calls of one coordinator method a racing caller makes
MaxRace == 1

NULL == 0

\* state.db: no stored client, or the client options.client() provided
NoClient == "null"

Client == "client"

\* unique keys of the rows the seed routine, the tests and the cleanup insert
SeedKey == "admin"

Keys == {"admin", "k1"}

VARIABLES
  hasSetup,            \* options.setup (seed routine) is configured
  hasTeardown,         \* options.teardown (cleanup routine) is configured
  db,                  \* state.db
  currentTransaction,  \* state.currentTransaction
  transactionPromise,  \* state.transactionPromise (named by its call)
  resolveTransaction,  \* state.resolveTransaction (the call whose reject it holds)
  outer,               \* promise returned by beginTransaction, per call
  inner,               \* the pending promise returned by the callback, per call
  txp,                 \* promise of db.transaction(...), per call
  chain,               \* promise of db.transaction(...).catch(...), per call
  cb,                  \* position of the transaction callback, per call
  txState,             \* database transaction: none / open / aborted / committed
  txWrites,            \* keys inserted inside the transaction, not yet committed
  committed,           \* committed rows <<key, writing transaction>>
  seedCalls,           \* handles options.setup was invoked with, per call
  teardownCalls,       \* handles options.teardown was invoked with, per call
  td,                  \* cleanup routine: none / running / done / failed
  rb,                  \* rollbackTransaction call: none / teardown / await / resolved / rejected
  rbAwait,             \* the promise the rollbackTransaction call awaits
  cur,                 \* the test the runner is at (0 before the first)
  phase,               \* runner position
  outcome,             \* outcome of the current test body
  snapshot,            \* committed rows when beginTransaction was called
  startView,           \* keys the test body sees when it gets control
  inserted,            \* <<who, key>> of every insert that succeeded, per transaction
  hasDisconnect,       \* options.disconnect (disconnect routine) is configured
  provider,            \* options.client() calls: none / pending / resolved / rejected
  shutdown,            \* teardown() calls: none / disconnecting / done
  obs                  \* the observation made by the last step, if it was one

vars == <<hasSetup, hasTeardown, db, currentTransaction, transactionPromise,
          resolveTransaction, outer, inner, txp, chain, cb, txState, txWrites,
          committed, seedCalls, teardownCalls, td, rb, rbAwait, cur, phase,
          outcome, snapshot, startView, inserted, hasDisconnect, provider,
          shutdown, obs>>

optv  == <<hasSetup, hasTeardown>>
dbv   == <<txState, txWrites, committed>>
callv == <<seedCalls, teardownCalls>>
runv  == <<cur, phase, outcome>>
suitev == <<hasDisconnect, provider, shutdown>>

---------------------------------------------------------------------------
\* Promises: state, rejection reason, and whether a rejection handler is attached

NoPromise == [st |-> "none", reason |-> "", value |-> NULL, handled |-> FALSE]

Pending(h) == [st |-> "pending", reason |-> "", value |-> NULL, handled |-> h]

Reject(p, r) ==
  IF p.st = "pending" THEN [p EXCEPT !.st = "rejected", !.reason = r] ELSE p

Fulfil(p) ==
  IF p.st = "pending" THEN [p EXCEPT !.st = "fulfilled"] ELSE p

FulfilWith(p, v) ==
  IF p.st = "pending" THEN [p EXCEPT !.st = "fulfilled", !.value = v] ELSE p

Settled(p) == p.st \in {"fulfilled", "rejected"}

NoObs == [kind |-> "none"]

---------------------------------------------------------------------------
\* The database behind a handle

VisibleRows(h) ==
  committed \cup (IF h \in Tests THEN {<<k, h>> : k \in txWrites[h]} ELSE {})

VisibleKeys(h) == {r[1] : r \in VisibleRows(h)}

\* the row that makes an insert of key k through handle h violate uniqueness
Conflict(h, k) == {r \in VisibleRows(h) : r[1] = k}

\* the coordinator as its constructor leaves it, the runner before the first test
Construct ==
  /\ hasSetup \in BOOLEAN
  /\ hasTeardown \in BOOLEAN
  /\ db = NoClient
  /\ currentTransaction = NULL
  /\ transactionPromise = NULL
  /\ resolveTransaction = NULL
  /\ outer = [n \in Tests |-> NoPromise]
  /\ inner = [n \in Tests |-> NoPromise]
  /\ txp = [n \in Tests |-> NoPromise]
  /\ chain = [n \in Tests |-> NoPromise]
  /\ cb = [n \in Tests |-> "none"]
  /\ txState = [n \in Tests |-> "none"]
  /\ txWrites = [n \in Tests |-> {}]
  /\ committed = {}
  /\ seedCalls = [n \in Tests |-> <<>>]
  /\ teardownCalls = [n \in Tests |-> <<>>]
  /\ td = [n \in Tests |-> "none"]
  /\ rb = [n \in Tests |-> "none"]
  /\ rbAwait = [n \in Tests |-> NULL]
  /\ cur = 0
  /\ phase = "idle"
  /\ outcome = "none"
  /\ snapshot = [n \in Tests |-> {}]
  /\ startView = [n \in Tests |-> {"unset"}]
  /\ inserted = [n \in Tests |-> {}]
  /\ provider = [n \in Tests |-> "none"]
  /\ shutdown = [n \in Tests |-> "none"]
  /\ obs = NoObs

\* options.disconnect is read by teardown() only, which the binder never
\* calls: the runs without teardown() are taken with the routine configured
Init ==
  /\ Construct
  /\ hasDisconnect = TRUE

---------------------------------------------------------------------------
\* context.ts: beginTransaction

\* BeginTransaction without the check of the stored client
BeginTransactionNoCheck(n, d) ==
  /\ outer' = [outer EXCEPT ![n] = Pending(TRUE)]
  /\ txp' = [txp EXCEPT ![n] = Pending(TRUE)]
  /\ chain' = [chain EXCEPT ![n] = Pending(FALSE)]
  /\ cb' = [cb EXCEPT ![n] = "waiting"]
  /\ transactionPromise' = n
  /\ snapshot' = [snapshot EXCEPT ![n] = committed]

\* the synchronous part of beginTransaction, called with state.db = d
BeginTransaction(n, d) ==
  IF d = NoClient
  THEN /\ outer' = [outer EXCEPT ![n] = Reject(Pending(TRUE), "InitError")]
       /\ UNCHANGED <<txp, chain, cb, transactionPromise, snapshot>>
  ELSE /\ outer' = [outer EXCEPT ![n] = Pending(TRUE)]
       /\ txp' = [txp EXCEPT ![n] = Pending(TRUE)]
       /\ chain' = [chain EXCEPT ![n] = Pending(FALSE)]
       /\ cb' = [cb EXCEPT ![n] = "waiting"]
       /\ transactionPromise' = n
       /\ snapshot' = [snapshot EXCEPT ![n] = committed]

\* Park that leaves state.resolveTransaction as it was
ParkNoTrigger(n) ==
  /\ outer' = [outer EXCEPT ![n] = FulfilWith(@, n)]
  /\ inner' = [inner EXCEPT ![n] = Pending(TRUE)]
  /\ resolveTransaction' = resolveTransaction
  /\ cb' = [cb EXCEPT ![n] = "parked"]

\* Park whose promise rejects at once instead of waiting for the trigger
ParkFiresTrigger(n) ==
  /\ outer' = [outer EXCEPT ![n] = FulfilWith(@, n)]
  /\ inner' = [inner EXCEPT ![n] = Reject(Pending(TRUE), "RollbackError")]
  /\ resolveTransaction' = n
  /\ cb' = [cb EXCEPT ![n] = "parked"]

\* Park with the pending promise created but not returned from the callback
ParkNoReturn(n) ==
  /\ outer' = [outer EXCEPT ![n] = FulfilWith(@, n)]
  /\ inner' = [inner EXCEPT ![n] = Pending(FALSE)]
  /\ resolveTransaction' = n
  /\ cb' = [cb EXCEPT ![n] = "returned"]

\* the tail of the callback: resolveOuter(tx), then return the promise whose
\* reject is kept as state.resolveTransaction
Park(n) ==
  /\ outer' = [outer EXCEPT ![n] = FulfilWith(@, n)]
  /\ inner' = [inner EXCEPT ![n] = Pending(TRUE)]
  /\ resolveTransaction' = n
  /\ cb' = [cb EXCEPT ![n] = "parked"]

\* EnterCallback that hands the handle to the caller before the seed has run
EnterCallbackEarlyResolve(n) ==
  /\ currentTransaction' = n
  /\ IF hasSetup
     THEN /\ seedCalls' = [seedCalls EXCEPT ![n] = Append(@, n)]
          /\ cb' = [cb EXCEPT ![n] = "seed"]
          /\ outer' = [outer EXCEPT ![n] = FulfilWith(@, n)]
          /\ UNCHANGED <<inner, resolveTransaction>>
     ELSE /\ Park(n)
          /\ UNCHANGED seedCalls

\* EnterCallback that does not store the handle before the seed runs
EnterCallbackLatePublish(n) ==
  /\ IF hasSetup
     THEN /\ seedCalls' = [seedCalls EXCEPT ![n] = Append(@, n)]
          /\ cb' = [cb EXCEPT ![n] = "seed"]
          /\ UNCHANGED <<outer, inner, resolveTransaction, currentTransaction>>
     ELSE /\ currentTransaction' = n
          /\ Park(n)
          /\ UNCHANGED seedCalls

\* the head of the callback, up to the await of options.setup
EnterCallback(n) ==
  /\ currentTransaction' = n
  /\ IF hasSetup
     THEN /\ seedCalls' = [seedCalls EXCEPT ![n] = Append(@, n)]
          /\ cb' = [cb EXCEPT ![n] = "seed"]
          /\ UNCHANGED <<outer, inner, resolveTransaction>>
     ELSE /\ Park(n)
          /\ UNCHANGED seedCalls

\* a trigger that resolves the pending promise instead of rejecting it
TriggerResolves(p) == Fulfil(p)

\* what the stored trigger does to the promise the callback returned
TriggerEffect(p) == Reject(p, "RollbackError")

\* a handler that rethrows the error it was given
SwallowHandlerRethrows(p, reason) == Reject(p, reason)

\* the handler attached to db.transaction(...) by .catch(() => {})
SwallowHandler(p, reason) == Fulfil(p)

\* how the callback's own promise has settled
CbResult(n) ==
  CASE cb[n] = "failed" -> "rejected"
    [] cb[n] = "returned" -> "fulfilled"
    [] cb[n] = "parked" /\ inner[n].st = "rejected" -> "rejected"
    [] cb[n] = "parked" /\ inner[n].st = "fulfilled" -> "fulfilled"
    [] OTHER -> "pending"

CbReason(n) == IF cb[n] = "failed" THEN "SeedError" ELSE inner[n].reason

---------------------------------------------------------------------------
\* setup.ts: the beforeEach hook

\* BeforeEach that calls setup() whether or not a client is stored
BeforeEachAlwaysSetup(n) ==
  /\ phase = "idle"
  /\ n = cur + 1
  /\ cur' = n
  /\ outcome' = "none"
  /\ phase' = "setup"
  /\ provider' = [provider EXCEPT ![n] = "pending"]
  /\ obs' = NoObs
  /\ UNCHANGED <<optv, hasDisconnect, shutdown, db, currentTransaction,
                 transactionPromise, resolveTransaction, outer, inner, txp,
                 chain, cb, dbv, callv, td, rb, rbAwait, snapshot, startView,
                 inserted>>

\* beforeEach starts for the next test: setup() when no client is stored,
\* else straight into beginTransaction
BeforeEach(n) ==
  /\ phase = "idle"
  /\ n = cur + 1
  /\ cur' = n
  /\ outcome' = "none"
  /\ IF db = NoClient
     THEN /\ phase' = "setup"
          /\ provider' = [provider EXCEPT ![n] = "pending"]
          /\ UNCHANGED <<outer, txp, chain, cb, transactionPromise, snapshot>>
     ELSE /\ phase' = "begin"
          /\ BeginTransaction(n, db)
          /\ UNCHANGED provider
  /\ obs' = NoObs
  /\ UNCHANGED <<optv, hasDisconnect, shutdown, db, currentTransaction, resolveTransaction, inner, dbv,
                 callv, td, rb, rbAwait, startView, inserted>>

\* context.setup(): options.client() resolved; the hook goes on to beginTransaction
ClientResolved(n) ==
  /\ phase = "setup"
  /\ cur = n
  /\ provider' = [provider EXCEPT ![n] = "resolved"]
  /\ db' = Client
  /\ phase' = "begin"
  /\ BeginTransaction(n, Client)
  /\ obs' = NoObs
  /\ UNCHANGED <<optv, hasDisconnect, shutdown, currentTransaction, resolveTransaction, inner, dbv,
                 callv, td, rb, rbAwait, cur, outcome, startView, inserted>>

\* context.setup(): options.client() threw; the hook fails, the test body is skipped
ClientRejected(n) ==
  /\ phase = "setup"
  /\ cur = n
  /\ provider' = [provider EXCEPT ![n] = "rejected"]
  /\ phase' = "testEnded"
  /\ outcome' = "hookFailed"
  /\ obs' = NoObs
  /\ UNCHANGED <<optv, hasDisconnect, shutdown, db, currentTransaction,
                 transactionPromise, resolveTransaction, outer, inner, txp,
                 chain, cb, dbv, callv, td, rb, rbAwait, cur, snapshot,
                 startView, inserted>>

\* BeforeEachResume of a hook that does not await beginTransaction
BeforeEachResumeEarly(n) ==
  /\ phase = "begin"
  /\ cur = n
  /\ IF outer[n].st # "rejected"
     THEN /\ phase' = "test"
          /\ outcome' = outcome
          /\ startView' = [startView EXCEPT ![n] =
               IF currentTransaction = NULL THEN {"nohandle"}
               ELSE VisibleKeys(currentTransaction)]
     ELSE /\ phase' = "testEnded"
          /\ outcome' = "hookFailed"
          /\ UNCHANGED startView
  /\ obs' = NoObs
  /\ UNCHANGED <<optv, suitev, db, currentTransaction, transactionPromise,
                 resolveTransaction, outer, inner, txp, chain, cb, dbv, callv,
                 td, rb, rbAwait, cur, snapshot, inserted>>

\* the await of beginTransaction in the hook resumes
BeforeEachResume(n) ==
  /\ phase = "begin"
  /\ cur = n
  /\ Settled(outer[n])
  /\ IF outer[n].st = "fulfilled"
     THEN /\ phase' = "test"
          /\ outcome' = outcome
          /\ startView' = [startView EXCEPT ![n] =
               IF currentTransaction = NULL THEN {"nohandle"}
               ELSE VisibleKeys(currentTransaction)]
     ELSE /\ phase' = "testEnded"
          /\ outcome' = "hookFailed"
          /\ UNCHANGED startView
  /\ obs' = NoObs
  /\ UNCHANGED <<optv, suitev, db, currentTransaction, transactionPromise,
                 resolveTransaction, outer, inner, txp, chain, cb, dbv, callv,
                 td, rb, rbAwait, cur, snapshot, inserted>>

---------------------------------------------------------------------------
\* The database client: transaction(callback)

\* the transaction has opened and the callback is invoked with its handle
DbInvokeCallback(n) ==
  /\ cb[n] = "waiting"
  /\ txState' = [txState EXCEPT ![n] = "open"]
  /\ EnterCallback(n)
  /\ obs' = NoObs
  /\ UNCHANGED <<optv, suitev, db, transactionPromise, txp, chain, txWrites, committed,
                 teardownCalls, td, rb, rbAwait, runv, snapshot, startView, inserted>>

\* the transaction could not be opened: db.transaction rejects, the callback
\* is never invoked, the .catch handler swallows the error
DbConnectFail(n) ==
  /\ cb[n] = "waiting"
  /\ cb' = [cb EXCEPT ![n] = "never"]
  /\ txp' = [txp EXCEPT ![n] = Reject(@, "DbError")]
  /\ chain' = [chain EXCEPT ![n] = SwallowHandler(@, "DbError")]
  /\ obs' = NoObs
  /\ UNCHANGED <<optv, suitev, db, currentTransaction, transactionPromise,
                 resolveTransaction, outer, inner, dbv, callv, td, rb, rbAwait,
                 runv, snapshot, startView, inserted>>

\* the callback's promise has settled: commit if it fulfilled, roll back if it
\* rejected; db.transaction settles the same way and the .catch handler runs
DbSettle(n) ==
  /\ txState[n] = "open"
  /\ CbResult(n) # "pending"
  /\ IF CbResult(n) = "fulfilled"
     THEN /\ txState' = [txState EXCEPT ![n] = "committed"]
          /\ committed' = committed \cup {<<k, n>> : k \in txWrites[n]}
          /\ txp' = [txp EXCEPT ![n] = Fulfil(@)]
          /\ chain' = [chain EXCEPT ![n] = Fulfil(@)]
     ELSE /\ txState' = [txState EXCEPT ![n] = "aborted"]
          /\ committed' = committed
          /\ txp' = [txp EXCEPT ![n] = Reject(@, CbReason(n))]
          /\ chain' = [chain EXCEPT ![n] = SwallowHandler(@, CbReason(n))]
  /\ txWrites' = [txWrites EXCEPT ![n] = {}]
  /\ obs' = NoObs
  /\ UNCHANGED <<optv, suitev, db, currentTransaction, transactionPromise,
                 resolveTransaction, outer, inner, cb, callv, td, rb, rbAwait,
                 runv, snapshot, startView, inserted>>

\* an insert of key k through handle h, as the database executes it; it waits
\* while another open transaction holds an uncommitted row with the same key
Insert(h, k, who) ==
  /\ h \in Tests
  /\ txState[h] = "open"
  /\ \A m \in Tests \ {h} : txState[m] = "open" => k \notin txWrites[m]
  /\ IF Conflict(h, k) = {}
     THEN /\ txWrites' = [txWrites EXCEPT ![h] = @ \cup {k}]
          /\ inserted' = [inserted EXCEPT ![h] = @ \cup {<<who, k>>}]
          /\ obs' = [kind |-> "insert", who |-> who, key |-> k, ok |-> TRUE,
                     conflict |-> {}]
     ELSE /\ UNCHANGED <<txWrites, inserted>>
          /\ obs' = [kind |-> "insert", who |-> who, key |-> k, ok |-> FALSE,
                     conflict |-> Conflict(h, k)]
  /\ UNCHANGED <<txState, committed>>

---------------------------------------------------------------------------
\* options.setup: the seed routine, running inside the callback

SeedInsert(n) ==
  /\ cb[n] = "seed"
  /\ Insert(seedCalls[n][Len(seedCalls[n])], SeedKey, "seed")
  /\ cb' = [cb EXCEPT ![n] = IF obs'.ok THEN "seeded" ELSE "failed"]
  /\ UNCHANGED <<optv, suitev, db, currentTransaction, transactionPromise,
                 resolveTransaction, outer, inner, txp, chain, callv, td, rb,
                 rbAwait, runv, snapshot, startView>>

\* the seed routine returned: the callback resumes after its await
SeedDone(n) ==
  /\ cb[n] = "seeded"
  /\ Park(n)
  /\ obs' = NoObs
  /\ UNCHANGED <<optv, suitev, db, currentTransaction, transactionPromise, txp, chain,
                 dbv, callv, td, rb, rbAwait, runv, snapshot, startView, inserted>>

\* the seed routine threw: the callback's promise rejects with the seed error
SeedFail(n) ==
  /\ cb[n] \in {"seed", "seeded"}
  /\ cb' = [cb EXCEPT ![n] = "failed"]
  /\ obs' = NoObs
  /\ UNCHANGED <<optv, suitev, db, currentTransaction, transactionPromise,
                 resolveTransaction, outer, inner, txp, chain, dbv, callv, td,
                 rb, rbAwait, runv, snapshot, startView, inserted>>

---------------------------------------------------------------------------
\* setup.ts: the vitestDrizzle.client getter

\* what the getter returns, and whether it warns
ClientGetter == [h |-> currentTransaction, warn |-> currentTransaction = NULL]

\* some code of the process reads vitestDrizzle.client
ClientRead ==
  /\ obs' = [kind |-> "read", h |-> ClientGetter.h, warn |-> ClientGetter.warn]
  /\ UNCHANGED <<optv, suitev, db, currentTransaction, transactionPromise,
                 resolveTransaction, outer, inner, txp, chain, cb, dbv, callv,
                 td, rb, rbAwait, runv, snapshot, startView, inserted>>

---------------------------------------------------------------------------
\* The test body, working through vitestDrizzle.client

TestInsert(n, k) ==
  /\ phase = "test"
  /\ cur = n
  /\ Insert(ClientGetter.h, k, "test")
  /\ UNCHANGED <<optv, suitev, db, currentTransaction, transactionPromise,
                 resolveTransaction, outer, inner, txp, chain, cb, callv, td,
                 rb, rbAwait, runv, snapshot, startView>>

TestSelect(n) ==
  /\ phase = "test"
  /\ cur = n
  /\ ClientGetter.h \in Tests
  /\ obs' = [kind |-> "select", test |-> n, rows |-> VisibleRows(ClientGetter.h)]
  /\ UNCHANGED <<optv, suitev, db, currentTransaction, transactionPromise,
                 resolveTransaction, outer, inner, txp, chain, cb, dbv, callv,
                 td, rb, rbAwait, runv, snapshot, startView, inserted>>

\* the test body passes, throws or times out
TestEnd(n, o) ==
  /\ phase = "test"
  /\ cur = n
  /\ phase' = "testEnded"
  /\ outcome' = o
  /\ obs' = NoObs
  /\ UNCHANGED <<optv, suitev, db, currentTransaction, transactionPromise,
                 resolveTransaction, outer, inner, txp, chain, cb, dbv, callv,
                 td, rb, rbAwait, cur, snapshot, startView, inserted>>

---------------------------------------------------------------------------
\* context.ts: rollbackTransaction

\* EndTransaction that fires the trigger and clears the fields without awaiting
EndTransactionNoWait(n) ==
  /\ inner' = IF resolveTransaction = NULL THEN inner
              ELSE [inner EXCEPT ![resolveTransaction] = TriggerEffect(@)]
  /\ resolveTransaction' = NULL
  /\ rb' = [rb EXCEPT ![n] = "resolved"]
  /\ currentTransaction' = NULL
  /\ transactionPromise' = NULL
  /\ UNCHANGED <<rbAwait, chain>>

\* from "End transaction" to the await of state.transactionPromise
EndTransaction(n) ==
  /\ inner' = IF resolveTransaction = NULL THEN inner
              ELSE [inner EXCEPT ![resolveTransaction] = TriggerEffect(@)]
  /\ resolveTransaction' = NULL
  /\ IF transactionPromise # NULL
     THEN /\ rb' = [rb EXCEPT ![n] = "await"]
          /\ rbAwait' = [rbAwait EXCEPT ![n] = transactionPromise]
          /\ chain' = [chain EXCEPT ![transactionPromise].handled = TRUE]
          /\ UNCHANGED <<currentTransaction, transactionPromise>>
     ELSE /\ rb' = [rb EXCEPT ![n] = "resolved"]
          /\ currentTransaction' = NULL
          /\ UNCHANGED <<transactionPromise, rbAwait, chain>>

\* RollbackTransaction that fires the trigger before it calls options.teardown
RollbackTransactionTriggerFirst(n) ==
  IF hasTeardown /\ currentTransaction # NULL
  THEN /\ teardownCalls' = [teardownCalls EXCEPT ![n] = Append(@, currentTransaction)]
       /\ td' = [td EXCEPT ![n] = "running"]
       /\ rb' = [rb EXCEPT ![n] = "teardown"]
       /\ inner' = IF resolveTransaction = NULL THEN inner
                   ELSE [inner EXCEPT ![resolveTransaction] = TriggerEffect(@)]
       /\ resolveTransaction' = NULL
       /\ UNCHANGED <<rbAwait, chain, currentTransaction, transactionPromise>>
  ELSE /\ EndTransaction(n)
       /\ UNCHANGED <<teardownCalls, td>>

\* RollbackTransaction that calls options.teardown without a stored handle
RollbackTransactionNoHandleCheck(n) ==
  IF hasTeardown
  THEN /\ teardownCalls' = [teardownCalls EXCEPT ![n] = Append(@, currentTransaction)]
       /\ td' = [td EXCEPT ![n] = "running"]
       /\ rb' = [rb EXCEPT ![n] = "teardown"]
       /\ UNCHANGED <<inner, resolveTransaction, rbAwait, chain,
                      currentTransaction, transactionPromise>>
  ELSE /\ EndTransaction(n)
       /\ UNCHANGED <<teardownCalls, td>>

\* the synchronous head of rollbackTransaction
RollbackTransaction(n) ==
  IF hasTeardown /\ currentTransaction # NULL
  THEN /\ teardownCalls' = [teardownCalls EXCEPT ![n] = Append(@, currentTransaction)]
       /\ td' = [td EXCEPT ![n] = "running"]
       /\ rb' = [rb EXCEPT ![n] = "teardown"]
       /\ UNCHANGED <<inner, resolveTransaction, rbAwait, chain,
                      currentTransaction, transactionPromise>>
  ELSE /\ EndTransaction(n)
       /\ UNCHANGED <<teardownCalls, td>>

\* setup.ts: the afterEach hook calls rollbackTransaction
AfterEach(n) ==
  /\ phase = "testEnded"
  /\ cur = n
  /\ phase' = "afterEach"
  /\ RollbackTransaction(n)
  /\ obs' = NoObs
  /\ UNCHANGED <<optv, suitev, db, outer, txp, cb, dbv, seedCalls, cur, outcome,
                 snapshot, startView, inserted>>

\* options.teardown: the cleanup routine inserts through the handle it was given
TeardownInsert(n, k) ==
  /\ rb[n] = "teardown"
  /\ Insert(teardownCalls[n][Len(teardownCalls[n])], k, "teardown")
  /\ UNCHANGED <<optv, suitev, db, currentTransaction, transactionPromise,
                 resolveTransaction, outer, inner, txp, chain, cb, callv, td,
                 rb, rbAwait, runv, snapshot, startView>>

\* the cleanup routine returned
TeardownDone(n) ==
  /\ rb[n] = "teardown"
  /\ td' = [td EXCEPT ![n] = "done"]
  /\ EndTransaction(n)
  /\ obs' = NoObs
  /\ UNCHANGED <<optv, suitev, db, outer, txp, cb, dbv, callv, runv, snapshot, startView, inserted>>

\* TeardownFail without the try / catch: rollbackTransaction rejects
TeardownFailPropagates(n) ==
  /\ rb[n] = "teardown"
  /\ td' = [td EXCEPT ![n] = "failed"]
  /\ rb' = [rb EXCEPT ![n] = "rejected"]
  /\ obs' = NoObs
  /\ UNCHANGED <<optv, suitev, db, currentTransaction, transactionPromise,
                 resolveTransaction, outer, inner, txp, chain, cb, dbv, callv,
                 rbAwait, runv, snapshot, startView, inserted>>

\* the cleanup routine threw: the error is logged and the rollback goes on
TeardownFail(n) ==
  /\ rb[n] = "teardown"
  /\ td' = [td EXCEPT ![n] = "failed"]
  /\ EndTransaction(n)
  /\ obs' = NoObs
  /\ UNCHANGED <<optv, suitev, db, outer, txp, cb, dbv, callv, runv, snapshot, startView, inserted>>

\* RollbackResume that does not wait for the awaited promise to settle
RollbackResumeEarly(n) ==
  /\ rb[n] = "await"
  /\ transactionPromise' = NULL
  /\ currentTransaction' = NULL
  /\ rb' = [rb EXCEPT ![n] = "resolved"]
  /\ obs' = NoObs
  /\ UNCHANGED <<optv, suitev, db, resolveTransaction, outer, inner, txp, chain, cb,
                 dbv, callv, td, rbAwait, runv, snapshot, startView, inserted>>

\* RollbackResume that leaves state.currentTransaction set
RollbackResumeStale(n) ==
  /\ rb[n] = "await"
  /\ Settled(chain[rbAwait[n]])
  /\ transactionPromise' = NULL
  /\ rb' = [rb EXCEPT ![n] = "resolved"]
  /\ obs' = NoObs
  /\ UNCHANGED <<optv, suitev, db, currentTransaction, resolveTransaction, outer, inner,
                 txp, chain, cb, dbv, callv, td, rbAwait, runv, snapshot,
                 startView, inserted>>

\* the awaited transactionPromise has settled: clear the fields and resolve
RollbackResume(n) ==
  /\ rb[n] = "await"
  /\ Settled(chain[rbAwait[n]])
  /\ transactionPromise' = NULL
  /\ currentTransaction' = NULL
  /\ rb' = [rb EXCEPT ![n] = "resolved"]
  /\ obs' = NoObs
  /\ UNCHANGED <<optv, suitev, db, resolveTransaction, outer, inner, txp, chain, cb,
                 dbv, callv, td, rbAwait, runv, snapshot, startView, inserted>>

\* AfterEachDone of a hook that does not await rollbackTransaction
AfterEachDoneNoAwait(n) ==
  /\ phase = "afterEach"
  /\ cur = n
  /\ phase' = "idle"
  /\ obs' = NoObs
  /\ UNCHANGED <<optv, suitev, db, currentTransaction, transactionPromise,
                 resolveTransaction, outer, inner, txp, chain, cb, dbv, callv,
                 td, rb, rbAwait, cur, outcome, snapshot, startView, inserted>>

\* the afterEach hook has returned
AfterEachDone(n) ==
  /\ phase = "afterEach"
  /\ cur = n
  /\ rb[n] \in {"resolved", "rejected"}
  /\ phase' = "idle"
  /\ obs' = NoObs
  /\ UNCHANGED <<optv, suitev, db, currentTransaction, transactionPromise,
                 resolveTransaction, outer, inner, txp, chain, cb, dbv, callv,
                 td, rb, rbAwait, cur, outcome, snapshot, startView, inserted>>

\* the suite ends: the binder registered beforeEach and afterEach only, so
\* the runner has no hook of the binder left to run
SuiteEnd ==
  /\ phase = "idle"
  /\ cur >= 1
  /\ phase' = "done"
  /\ obs' = NoObs
  /\ UNCHANGED <<optv, suitev, db, currentTransaction, transactionPromise,
                 resolveTransaction, outer, inner, txp, chain, cb, dbv, callv,
                 td, rb, rbAwait, cur, outcome, snapshot, startView, inserted>>

---------------------------------------------------------------------------
Next ==
  \/ \E n \in Tests : BeforeEach(n)
  \/ \E n \in Tests : ClientResolved(n)
  \/ \E n \in Tests : ClientRejected(n)
  \/ \E n \in Tests : BeforeEachResume(n)
  \/ \E n \in Tests : DbInvokeCallback(n)
  \/ \E n \in Tests : DbConnectFail(n)
  \/ \E n \in Tests : DbSettle(n)
  \/ \E n \in Tests : SeedInsert(n)
  \/ \E n \in Tests : SeedDone(n)
  \/ \E n \in Tests : SeedFail(n)
  \/ ClientRead
  \/ \E n \in Tests, k \in Keys : TestInsert(n, k)
  \/ \E n \in Tests : TestSelect(n)
  \/ \E n \in Tests, o \in {"pass", "throw", "timeout"} : TestEnd(n, o)
  \/ \E n \in Tests : AfterEach(n)
  \/ \E n \in Tests, k \in Keys : TeardownInsert(n, k)
  \/ \E n \in Tests : TeardownDone(n)
  \/ \E n \in Tests : TeardownFail(n)
  \/ \E n \in Tests : RollbackResume(n)
  \/ \E n \in Tests : AfterEachDone(n)
  \/ SuiteEnd

Spec == Init /\ [][Next]_vars

---------------------------------------------------------------------------
\* setupDrizzleEnvironment called a second time, inside a describe block. Every
\* call assigns globalThis.vitestDrizzle, so the getter reads the coordinator
\* of the last call, the one modelled here; its beforeEach / afterEach are
\* registered in the describe block and run for the tests of that block only.

\* the runner starts a test outside the describe block: the hooks of this
\* binder do not run and its coordinator is not touched
OutsideTest(n) ==
  /\ phase = "idle"
  /\ n = cur + 1
  /\ cur' = n
  /\ phase' = "outside"
  /\ outcome' = "none"
  /\ obs' = NoObs
  /\ UNCHANGED <<optv, suitev, db, currentTransaction, transactionPromise,
                 resolveTransaction, outer, inner, txp, chain, cb, dbv, callv,
                 td, rb, rbAwait, snapshot, startView, inserted>>

\* the test outside the describe block has ended
OutsideEnd(n, o) ==
  /\ phase = "outside"
  /\ cur = n
  /\ phase' = "idle"
  /\ outcome' = o
  /\ obs' = NoObs
  /\ UNCHANGED <<optv, suitev, db, currentTransaction, transactionPromise,
                 resolveTransaction, outer, inner, txp, chain, cb, dbv, callv,
                 td, rb, rbAwait, cur, snapshot, startView, inserted>>

DescribeNext ==
  \/ Next
  \/ \E n \in Tests : OutsideTest(n)
  \/ \E n \in Tests, o \in {"pass", "throw", "timeout"} : OutsideEnd(n, o)

DescribeSpec == Init /\ [][DescribeNext]_vars

---------------------------------------------------------------------------
\* The coordinator driven directly: setup(), teardown(), beginTransaction()
\* and rollbackTransaction() called by any caller. Calls of one method are
\* numbered in the order they are made; cur is the number of the last
\* beginTransaction call.

NextCall(f) == Cardinality({n \in Tests : f[n] # "none"}) + 1

\* context.ts: setup() calls options.client() and awaits it
ApiSetup(n) ==
  /\ n = NextCall(provider)
  /\ provider' = [provider EXCEPT ![n] = "pending"]
  /\ obs' = NoObs
  /\ UNCHANGED <<optv, hasDisconnect, shutdown, db, currentTransaction,
                 transactionPromise, resolveTransaction, outer, inner, txp,
                 chain, cb, dbv, callv, td, rb, rbAwait, runv, snapshot,
                 startView, inserted>>

\* options.client() resolved: setup() stores the client
ApiSetupResolved(n) ==
  /\ provider[n] = "pending"
  /\ provider' = [provider EXCEPT ![n] = "resolved"]
  /\ db' = Client
  /\ obs' = NoObs
  /\ UNCHANGED <<optv, hasDisconnect, shutdown, currentTransaction,
                 transactionPromise, resolveTransaction, outer, inner, txp,
                 chain, cb, dbv, callv, td, rb, rbAwait, runv, snapshot,
                 startView, inserted>>

\* options.client() threw: setup() rejects and stores nothing
ApiSetupRejected(n) ==
  /\ provider[n] = "pending"
  /\ provider' = [provider EXCEPT ![n] = "rejected"]
  /\ obs' = NoObs
  /\ UNCHANGED <<optv, hasDisconnect, shutdown, db, currentTransaction,
                 transactionPromise, resolveTransaction, outer, inner, txp,
                 chain, cb, dbv, callv, td, rb, rbAwait, runv, snapshot,
                 startView, inserted>>

\* context.ts: teardown() up to the await of options.disconnect(), or to its
\* end when no disconnect routine is configured
ApiTeardown(n) ==
  /\ n = NextCall(shutdown)
  /\ IF hasDisconnect
     THEN /\ shutdown' = [shutdown EXCEPT ![n] = "disconnecting"]
          /\ db' = db
     ELSE /\ shutdown' = [shutdown EXCEPT ![n] = "cleared"]
          /\ db' = NoClient
  /\ obs' = NoObs
  /\ UNCHANGED <<optv, hasDisconnect, provider, currentTransaction,
                 transactionPromise, resolveTransaction, outer, inner, txp,
                 chain, cb, dbv, callv, td, rb, rbAwait, runv, snapshot,
                 startView, inserted>>

\* options.disconnect() returned: teardown() clears the stored client
DisconnectDone(n) ==
  /\ shutdown[n] = "disconnecting"
  /\ shutdown' = [shutdown EXCEPT ![n] = "done"]
  /\ db' = NoClient
  /\ obs' = NoObs
  /\ UNCHANGED <<optv, hasDisconnect, provider, currentTransaction,
                 transactionPromise, resolveTransaction, outer, inner, txp,
                 chain, cb, dbv, callv, td, rb, rbAwait, runv, snapshot,
                 startView, inserted>>

\* options.disconnect() threw: teardown() rejects before clearing the client
DisconnectFail(n) ==
  /\ shutdown[n] = "disconnecting"
  /\ shutdown' = [shutdown EXCEPT ![n] = "failed"]
  /\ obs' = NoObs
  /\ UNCHANGED <<optv, hasDisconnect, provider, db, currentTransaction,
                 transactionPromise, resolveTransaction, outer, inner, txp,
                 chain, cb, dbv, callv, td, rb, rbAwait, runv, snapshot,
                 startView, inserted>>

\* a call of beginTransaction()
ApiBegin(n) ==
  /\ n = cur + 1
  /\ cur' = n
  /\ BeginTransaction(n, db)
  /\ obs' = NoObs
  /\ UNCHANGED <<optv, suitev, db, currentTransaction, resolveTransaction,
                 inner, dbv, callv, td, rb, rbAwait, phase, outcome, startView,
                 inserted>>

\* a call of rollbackTransaction()
ApiRollback(n) ==
  /\ n = NextCall(rb)
  /\ RollbackTransaction(n)
  /\ obs' = NoObs
  /\ UNCHANGED <<optv, suitev, db, outer, txp, cb, dbv, seedCalls, runv,
                 snapshot, startView, inserted>>

\* setup(), beginTransaction() and rollbackTransaction() called in any order
ApiNext ==
  \/ \E n \in Tests : ApiSetup(n)
  \/ \E n \in Tests : ApiSetupResolved(n)
  \/ \E n \in Tests : ApiSetupRejected(n)
  \/ \E n \in Tests : ApiBegin(n)
  \/ \E n \in Tests : ApiRollback(n)
  \/ \E n \in Tests : DbInvokeCallback(n)
  \/ \E n \in Tests : DbConnectFail(n)
  \/ \E n \in Tests : DbSettle(n)
  \/ \E n \in Tests : SeedInsert(n)
  \/ \E n \in Tests : SeedDone(n)
  \/ \E n \in Tests : SeedFail(n)
  \/ \E n \in Tests : TeardownDone(n)
  \/ \E n \in Tests : TeardownFail(n)
  \/ \E n \in Tests : RollbackResume(n)

ApiSpec == Init /\ [][ApiNext]_vars

\* setup() and teardown() called in any order, with or without a disconnect
\* routine
ShutdownInit ==
  /\ Construct
  /\ hasDisconnect \in BOOLEAN

ShutdownNext ==
  \/ \E n \in Tests : ApiSetup(n)
  \/ \E n \in Tests : ApiSetupResolved(n)
  \/ \E n \in Tests : ApiSetupRejected(n)
  \/ \E n \in Tests : ApiTeardown(n)
  \/ \E n \in Tests : DisconnectDone(n)
  \/ \E n \in Tests : DisconnectFail(n)

ShutdownSpec == ShutdownInit /\ [][ShutdownNext]_vars

\* setup(), beginTransaction() and rollbackTransaction() called at any time,
\* also while earlier calls are in flight, by a caller that makes at most
\* MaxRace calls of setup() and beginTransaction() and one more of
\* rollbackTransaction()
RaceNext ==
  \/ \E n \in 1..MaxRace : ApiSetup(n)
  \/ \E n \in Tests : ApiSetupResolved(n)
  \/ \E n \in Tests : ApiSetupRejected(n)
  \/ \E n \in 1..MaxRace : ApiBegin(n)
  \/ \E n \in 1..(MaxRace + 1) : ApiRollback(n)
  \/ \E n \in Tests : DbInvokeCallback(n)
  \/ \E n \in Tests : DbConnectFail(n)
  \/ \E n \in Tests : DbSettle(n)
  \/ \E n \in Tests : SeedInsert(n)
  \/ \E n \in Tests : SeedDone(n)
  \/ \E n \in Tests : SeedFail(n)
  \/ \E n \in Tests : TeardownDone(n)
  \/ \E n \in Tests : TeardownFail(n)
  \/ \E n \in Tests : RollbackResume(n)

RaceSpec == Init /\ [][RaceNext]_vars

\* setup(), teardown() and beginTransaction() called at any time by a caller
\* that makes at most MaxRace calls of setup() and teardown() and one more of
\* beginTransaction(); no rollbackTransaction
LifecycleNext ==
  \/ \E n \in 1..MaxRace : ApiSetup(n)
  \/ \E n \in Tests : ApiSetupResolved(n)
  \/ \E n \in Tests : ApiSetupRejected(n)
  \/ \E n \in 1..MaxRace : ApiTeardown(n)
  \/ \E n \in Tests : DisconnectDone(n)
  \/ \E n \in Tests : DisconnectFail(n)
  \/ \E n \in 1..(MaxRace + 1) : ApiBegin(n)
  \/ \E n \in Tests : DbInvokeCallback(n)
  \/ \E n \in Tests : DbConnectFail(n)
  \/ \E n \in Tests : DbSettle(n)
  \/ \E n \in Tests : SeedInsert(n)
  \/ \E n \in Tests : SeedDone(n)
  \/ \E n \in Tests : SeedFail(n)

LifecycleSpec == ShutdownInit /\ [][LifecycleNext]_vars

FairSpec ==
  /\ Spec
  /\ \A n \in Tests :
       /\ WF_vars(BeforeEachResume(n))
       /\ WF_vars(\E o \in {"pass", "throw", "timeout"} : TestEnd(n, o))
       /\ WF_vars(AfterEach(n))
       /\ WF_vars(TeardownDone(n) \/ TeardownFail(n))
       /\ WF_vars(DbSettle(n))
       /\ WF_vars(RollbackResume(n))
       /\ WF_vars(AfterEachDone(n))

---------------------------------------------------------------------------
\* Positions the properties speak about

\* beginTransaction of test n resolved: its pre-test hook completed
BeginResolved(n) == outer[n].st = "fulfilled"

\* the afterEach hook of test n has returned
HookReturned(n) == cur > n \/ (cur = n /\ phase \in {"idle", "done"})

CommittedKeys == {r[1] : r \in committed}

\* how often options.disconnect / options.client has been invoked
DisconnectCalls ==
  Cardinality({n \in Tests : shutdown[n] \in {"disconnecting", "done", "failed"}})

ProviderCalls == Cardinality({n \in Tests : provider[n] # "none"})

---------------------------------------------------------------------------
C1_Safety ==
  \A n \in Tests :
    /\ txState[n] # "committed"
    /\ (cur = n /\ phase = "afterEach") => rb[n] # "none"
    /\ (BeginResolved(n) /\ HookReturned(n)) =>
         (rb[n] = "resolved" /\ txState[n] = "aborted")

\* C1: for every test whose beginTransaction resolved, whatever the outcome of
\* the body (pass, throw, timeout), the afterEach hook calls
\* rollbackTransaction, the transaction is never committed, it is aborted (not
\* open) once the hook has returned, and it does end aborted
C1_RollbackAlways ==
  /\ []C1_Safety
  /\ \A n \in Tests :
       BeginResolved(n) ~> (txState[n] = "aborted" /\ HookReturned(n))

C1_Witness ==
  /\ cur \in Tests
  /\ BeginResolved(cur)
  /\ HookReturned(cur)
  /\ outcome = "timeout"
  /\ txState[cur] = "aborted"

\* C2: once rollbackTransaction has resolved, the committed rows seen through
\* the stored client are the rows committed when that test's beginTransaction
\* was called, whatever the seed, the body and the cleanup wrote
C2_RollbackComplete ==
  \A n \in Tests :
    rb[n] = "resolved" => committed = snapshot[n]

C2_Witness ==
  \E n \in Tests :
    /\ rb[n] = "resolved"
    /\ \E k \in Keys : <<"test", k>> \in inserted[n]
    /\ \E k \in Keys : <<"teardown", k>> \in inserted[n]

\* C3: a query a test makes through vitestDrizzle.client returns no row
\* written in another test's transaction, an insert fails on a unique key only
\* against a row of the test's own transaction, and every test body starts
\* from the same visible keys
C3_Isolation ==
  /\ obs.kind = "select" => \A r \in obs.rows : r[2] = obs.test
  /\ (obs.kind = "insert" /\ ~obs.ok) => \A r \in obs.conflict : r[2] = cur
  /\ \A n, m \in Tests :
       (startView[n] # {"unset"} /\ startView[m] # {"unset"}) =>
          startView[n] = startView[m]

C3_Witness ==
  /\ cur = 2
  /\ <<"test", "k1">> \in inserted[1]
  /\ obs.kind = "insert"
  /\ obs.who = "test"
  /\ obs.key = "k1"
  /\ obs.ok

\* C4: RollbackError is never the rejection reason of the promise returned by
\* beginTransaction or rollbackTransaction, and every promise rejected with it
\* has a rejection handler
C4_RollbackErrorContained ==
  \A n \in Tests :
    /\ outer[n].reason # "RollbackError"
    /\ rb[n] # "rejected"
    /\ chain[n].reason # "RollbackError"
    /\ \A p \in {inner[n], txp[n], chain[n], outer[n]} :
         (p.st = "rejected" /\ p.reason = "RollbackError") => p.handled

C4_Witness ==
  \E n \in Tests :
    /\ inner[n].st = "rejected"
    /\ inner[n].reason = "RollbackError"
    /\ txp[n].st = "rejected"
    /\ txp[n].reason = "RollbackError"
    /\ chain[n].st = "fulfilled"
    /\ rb[n] = "resolved"

\* C5: when options.setup throws during beginTransaction, the promise
\* beginTransaction returned rejects with the seed error, the attempted
\* transaction is rolled back and no trigger is installed
C5_SeedErrorPropagates ==
  \A n \in Tests :
    (cb[n] = "failed" /\ txState[n] = "aborted") =>
       /\ outer[n].st = "rejected"
       /\ outer[n].reason = "SeedError"
       /\ resolveTransaction # n

\* C6: when options.teardown throws, rollbackTransaction still fires the
\* trigger, waits for the rollback to settle, clears the coordinator fields
\* and resolves; the next test starts from the rolled-back state
C6_CleanupFailureContained ==
  \A n \in Tests :
    td[n] = "failed" =>
      /\ rb[n] \in {"await", "resolved"}
      /\ inner[n].st = "rejected"
      /\ rb[n] = "resolved" => (Settled(chain[n]) /\ txState[n] = "aborted")
      /\ (rb[n] = "resolved" /\ cur = n) =>
           /\ currentTransaction = NULL
           /\ transactionPromise = NULL
           /\ resolveTransaction = NULL
      /\ (n + 1 \in Tests /\ startView[n + 1] # {"unset"}) =>
           /\ snapshot[n + 1] = {}
           /\ startView[n + 1] = IF hasSetup THEN {SeedKey} ELSE {}

C6_Witness ==
  /\ td[1] = "failed"
  /\ cur = 2
  /\ phase = "test"
  /\ txState[1] = "aborted"

\* C7: a configured seed routine is invoked exactly once per test, with that
\* test's handle, after the transaction opened, and has completed before
\* beginTransaction resolves; its row is visible to the body, gone after the
\* rollback, and the next test sees only the row of its own seed run
C7_SeedOncePerTest ==
  hasSetup =>
    /\ \A n \in Tests :
         /\ Len(seedCalls[n]) <= 1
         /\ seedCalls[n] # <<>> => (seedCalls[n] = <<n>> /\ txState[n] # "none")
         /\ BeginResolved(n) =>
              /\ seedCalls[n] = <<n>>
              /\ cb[n] = "parked"
              /\ <<"seed", SeedKey>> \in inserted[n]
         /\ (cur = n /\ phase = "test") =>
              /\ <<SeedKey, n>> \in VisibleRows(ClientGetter.h)
              /\ startView[n] = {SeedKey}
         /\ rb[n] = "resolved" => (SeedKey \notin CommittedKeys /\ txWrites[n] = {})
    /\ obs.kind = "select" =>
         {r \in obs.rows : r[1] = SeedKey} = {<<SeedKey, obs.test>>}

C7_Witness ==
  /\ hasSetup
  /\ cur = 2
  /\ phase = "test"
  /\ rb[1] = "resolved"
  /\ obs.kind = "select"
  /\ <<SeedKey, 2>> \in obs.rows

C9_ClientWindow ==
  obs.kind = "read" =>
    /\ phase = "idle" => (obs.h = NULL /\ obs.warn)
    /\ (cur \in Tests /\ phase \in {"test", "testEnded"} /\ BeginResolved(cur)) =>
         /\ obs.h # NULL
         /\ obs.h = outer[cur].value
         /\ ~obs.warn

C9_Witness ==
  /\ obs.kind = "read"
  /\ phase = "idle"
  /\ cur \in Tests
  /\ BeginResolved(cur)
  /\ obs.warn

\* C10: any non-null handle a read of vitestDrizzle.client returns belongs to
\* the transaction opened for the test currently running, and that
\* transaction has not been aborted
C10_LiveHandleOnly ==
  (obs.kind = "read" /\ obs.h # NULL) =>
     (obs.h = cur /\ txState[obs.h] = "open")

\* C11: with a disconnect routine configured, once the suite has ended the
\* routine has been invoked exactly once and the stored client is cleared
C11_DisconnectAtSuiteEnd ==
  (hasDisconnect /\ phase = "done") =>
     (DisconnectCalls = 1 /\ db = NoClient)

C12_Once ==
  (\A n \in Tests : provider[n] # "rejected") =>
     /\ ProviderCalls <= 1
     /\ \A n \in Tests : provider[n] = "pending" => db = NoClient
     /\ \A n \in Tests :
          cb[n] # "none" =>
            (ProviderCalls = 1 /\ provider[1] = "resolved" /\ db = Client)

C12_Frame ==
  db' # db => \E n \in Tests : provider[n] = "pending" /\ provider'[n] = "resolved"

\* C12: while options.client() never fails it is invoked at most once, only
\* while no client is stored and before the first db.transaction call; only
\* its resolution changes the stored client, so beginTransaction and
\* rollbackTransaction leave it alone and every transaction is opened on it
C12_ClientOncePerSuite == []C12_Once /\ [][C12_Frame]_vars

C12_Witness ==
  /\ cur = 2
  /\ phase = "test"
  /\ provider[1] = "resolved"
  /\ provider[2] = "none"
  /\ rb[1] = "resolved"
  /\ db = Client

\* C13: when options.client() rejects for a test, the pre-test hook fails, no
\* db.transaction call is made and no seed runs for that test, the client and
\* the transaction fields stay unset, and the post-test hook's
\* rollbackTransaction resolves without invoking the cleanup routine
C13_ClientErrorPropagates ==
  \A n \in Tests :
    provider[n] = "rejected" =>
      /\ cb[n] = "none"
      /\ outer[n] = NoPromise
      /\ txp[n] = NoPromise
      /\ txState[n] = "none"
      /\ seedCalls[n] = <<>>
      /\ teardownCalls[n] = <<>>
      /\ td[n] = "none"
      /\ rb[n] \in {"none", "resolved"}
      /\ cur = n =>
           /\ outcome = "hookFailed"
           /\ phase \in {"testEnded", "afterEach", "idle", "done"}
           /\ db = NoClient
           /\ currentTransaction = NULL
           /\ transactionPromise = NULL
           /\ resolveTransaction = NULL
           /\ phase \in {"afterEach", "idle", "done"} => rb[n] = "resolved"

C13_Witness ==
  /\ hasTeardown
  /\ cur = 1
  /\ provider[1] = "rejected"
  /\ phase = "idle"
  /\ rb[1] = "resolved"

\* C14: db.transaction for test n+1 has been called only if rollbackTransaction
\* of test n has resolved and the transaction of test n, if one was opened,
\* has settled as aborted
C14_Ordering ==
  \A n \in Tests :
    (n + 1 \in Tests /\ cb[n + 1] # "none") =>
       /\ rb[n] = "resolved"
       /\ txState[n] \in {"none", "aborted"}
       /\ cb[n] # "none" => Settled(chain[n])

C14_Witness ==
  /\ cb[2] = "waiting"
  /\ txState[1] = "aborted"
  /\ rb[1] = "resolved"

\* C15: while the body of a test runs, the one db.transaction call made for
\* that test has opened a transaction that is still open and untriggered, the
\* stored handle is the handle of that call, and no transaction of an earlier
\* test is open or stored
C15_FreshTransaction ==
  \A n \in Tests :
    (cur = n /\ phase = "test") =>
       /\ cb[n] = "parked"
       /\ txState[n] = "open"
       /\ inner[n].st = "pending"
       /\ currentTransaction = n
       /\ outer[n].value = n
       /\ \A m \in Tests :
            /\ m < n => (txState[m] # "open" /\ rb[m] = "resolved")
            /\ m > n => cb[m] = "none"

C15_Witness ==
  /\ cur = 2
  /\ phase = "test"
  /\ txState[1] = "aborted"
  /\ obs.kind = "insert"
  /\ obs.who = "test"
  /\ obs.ok

\* C16: whenever no beginTransaction call is between its start and the end of
\* its callback's synchronous work and no rollbackTransaction call is in
\* progress, currentTransaction, transactionPromise and resolveTransaction
\* are all null or all non-null
C16_Lockstep ==
  (\A n \in Tests :
      /\ cb[n] \notin {"waiting", "seed", "seeded"}
      /\ rb[n] \notin {"teardown", "await"}) =>
     \/ /\ currentTransaction = NULL
        /\ transactionPromise = NULL
        /\ resolveTransaction = NULL
     \/ /\ currentTransaction # NULL
        /\ transactionPromise # NULL
        /\ resolveTransaction # NULL

\* C17: under any sequence of beginTransaction and rollbackTransaction calls
\* at most one transaction is open at a time, and the stored trigger is the
\* trigger of every transaction that is parked and not yet triggered
C17_NoOpenToOpen ==
  /\ Cardinality({n \in Tests : txState[n] = "open"}) <= 1
  /\ \A n \in Tests :
       (cb[n] = "parked" /\ inner[n].st = "pending") => resolveTransaction = n

C18_Held ==
  \A n \in Tests :
    /\ inner[n].st # "fulfilled"
    /\ txState[n] # "committed"
    /\ (BeginResolved(n) /\ rb[n] \in {"none", "teardown"}) =>
         /\ CbResult(n) = "pending"
         /\ txState[n] = "open"
         /\ ~Settled(txp[n])
         /\ ~Settled(chain[n])
    /\ inner[n].st = "rejected" =>
         (inner[n].reason = "RollbackError" /\ rb[n] \in {"await", "resolved"})

C18_Step ==
  \A n \in Tests :
    (inner[n].st = "pending" /\ inner'[n].st # "pending") =>
       (rb[n] \in {"none", "teardown"} /\ rb'[n] \in {"await", "resolved"})

\* C18: the promise the callback returned after a successful seed never
\* fulfils and the transaction never commits; from beginTransaction resolving
\* until rollbackTransaction reaches its trigger the promise stays pending
\* and the transaction open, and the only step that settles the promise is
\* the trigger fired by rollbackTransaction
C18_OnlyTriggerEnds == []C18_Held /\ [][C18_Step]_vars

C18_Witness ==
  /\ hasSetup
  /\ cur = 1
  /\ outcome = "timeout"
  /\ inner[1].st = "rejected"
  /\ txState[1] = "open"
  /\ rb[1] = "await"

C19_Step ==
  \A n \in Tests :
    (cur = n /\ phase = "begin" /\ phase' = "test") =>
       /\ outer[n].value = n
       /\ currentTransaction = n
       /\ resolveTransaction = n
       /\ transactionPromise = n
       /\ ~Settled(chain[n])
       /\ cb[n] = "parked"
       /\ inner[n].st = "pending"
       /\ txState[n] = "open"
       /\ hasSetup => (seedCalls[n] = <<n>> /\ <<"seed", SeedKey>> \in inserted[n])

C19_RollbackAborts ==
  \A n \in Tests :
    BeginResolved(n) =>
      /\ rb[n] \in {"await", "resolved"} => inner[n].st = "rejected"
      /\ rb[n] = "resolved" => txState[n] = "aborted"

\* C19: at the step where the caller awaiting beginTransaction resumes, the
\* stored handle is the returned one, the seed has completed, the trigger is
\* installed and transactionPromise is set and unsettled; a
\* rollbackTransaction after that rejects the parked promise and resolves
\* with the transaction aborted
C19_FullyOpenOnResume == [][C19_Step]_vars /\ []C19_RollbackAborts

C19_Witness ==
  /\ hasSetup
  /\ ~hasTeardown
  /\ cur = 1
  /\ startView[1] = {SeedKey}
  /\ inserted[1] = {<<"seed", SeedKey>>}
  /\ rb[1] = "resolved"
  /\ txState[1] = "aborted"

\* C20: a rollbackTransaction call that awaited transactionPromise has
\* resolved only if that promise chain has settled and its transaction is no
\* longer open; while the call has not resolved, transactionPromise and
\* currentTransaction are still set, and once it has they are cleared
C20_ResolveAfterSettle ==
  \A n \in Tests :
    /\ (rb[n] = "resolved" /\ rbAwait[n] # NULL) =>
         /\ Settled(chain[rbAwait[n]])
         /\ txState[rbAwait[n]] # "open"
    /\ (cur = n /\ BeginResolved(n) /\ rb[n] \in {"teardown", "await"}) =>
         /\ transactionPromise = n
         /\ currentTransaction = n
    /\ (cur = n /\ rb[n] = "resolved" /\ phase \in {"afterEach", "idle", "done"}) =>
         /\ transactionPromise = NULL
         /\ currentTransaction = NULL

C20_Witness ==
  /\ cur = 1
  /\ rb[1] = "resolved"
  /\ rbAwait[1] = 1
  /\ chain[1].st = "fulfilled"
  /\ txState[1] = "aborted"
  /\ currentTransaction = NULL

\* C21: with a cleanup routine configured, rollbackTransaction of a test whose
\* transaction is open invokes the routine exactly once, with the stored
\* handle; while the routine runs the trigger has not been invoked and the
\* transaction is open; the trigger is invoked only after the routine has
\* ended, and the rows the routine wrote are not committed
C21_CleanupBeforeTrigger ==
  hasTeardown =>
    \A n \in Tests :
      /\ Len(teardownCalls[n]) <= 1
      /\ teardownCalls[n] # <<>> => teardownCalls[n] = <<n>>
      /\ (BeginResolved(n) /\ rb[n] # "none") => teardownCalls[n] = <<n>>
      /\ rb[n] = "teardown" =>
           /\ td[n] = "running"
           /\ txState[n] = "open"
           /\ inner[n].st = "pending"
           /\ resolveTransaction = n
      /\ inner[n].st = "rejected" => td[n] \in {"done", "failed"}
      /\ rb[n] = "resolved" =>
           \A k \in Keys : <<k, n>> \notin committed

C21_Witness ==
  /\ hasTeardown
  /\ cur = 1
  /\ td[1] = "done"
  /\ <<"teardown", "k1">> \in inserted[1]
  /\ inner[1].st = "rejected"
  /\ txState[1] = "aborted"
  /\ rb[1] = "resolved"

C22_Step ==
  \A n \in Tests :
    (outer[n] = NoPromise /\ outer'[n] # NoPromise /\ db = NoClient) =>
       /\ outer'[n].st = "rejected"
       /\ outer'[n].reason = "InitError"
       /\ UNCHANGED <<db, currentTransaction, transactionPromise,
                      resolveTransaction, inner, txp, chain, cb, dbv, callv>>

C22_Held ==
  \A n \in Tests :
    outer[n].reason = "InitError" =>
       /\ outer[n].st = "rejected"
       /\ cb[n] = "none"
       /\ txp[n] = NoPromise
       /\ txState[n] = "none"
       /\ seedCalls[n] = <<>>

\* C22: a beginTransaction call made while no client is stored rejects with
\* the initialization-order error, and that call makes no db.transaction call,
\* invokes no seed and changes no field of the coordinator
C22_BeginNeedsClient == [][C22_Step]_vars /\ []C22_Held

C22_Witness ==
  /\ provider[1] = "resolved"
  /\ shutdown[1] \in {"done", "cleared"}
  /\ outer[1].st = "fulfilled"
  /\ outer[2].st = "rejected"
  /\ outer[2].reason = "InitError"
  /\ db = NoClient

C23_Step ==
  \A n \in Tests :
    (shutdown[n] = "none" /\ shutdown'[n] # "none") =>
       /\ db = NoClient => (shutdown'[n] # "disconnecting" /\ db' = db)
       /\ (db = Client /\ hasDisconnect) => shutdown'[n] = "disconnecting"

\* C23: a teardown() call made while no client is stored does not invoke the
\* disconnect routine and changes no state; made with a client stored it
\* invokes the configured routine
C23_TeardownIdempotent == [][C23_Step]_vars

\* C24: once db.transaction has rejected without invoking the callback, or
\* has rejected because the seed threw, the promise beginTransaction
\* returned is settled
C24_BeginSettles ==
  \A n \in Tests :
    (cb[n] = "never" \/ (cb[n] = "failed" /\ Settled(chain[n]))) =>
       outer[n].st = "rejected"

\* C25: no rollbackTransaction call is left waiting for a transaction whose
\* callback has parked, with the trigger installed but never invoked
C25_RollbackDuringSeed ==
  \A n \in Tests :
    (rb[n] = "await" /\ rbAwait[n] # NULL) =>
       ~ /\ cb[rbAwait[n]] = "parked"
         /\ inner[rbAwait[n]].st = "pending"
         /\ txState[rbAwait[n]] = "open"

\* C26: while the cleanup routine invoked by a rollbackTransaction call is
\* running on a handle, the transaction of that handle is open
C26_CleanupOnLiveHandle ==
  \A n \in Tests :
    (rb[n] = "teardown" /\ teardownCalls[n] # <<>>) =>
       LET h == teardownCalls[n][Len(teardownCalls[n])]
       IN  h \in Tests /\ txState[h] = "open"

\* the coordinator is CLOSED
Closed ==
  /\ currentTransaction = NULL
  /\ transactionPromise = NULL
  /\ resolveTransaction = NULL

C27_Step ==
  \A n \in Tests :
    (rb[n] = "none" /\ rb'[n] # "none" /\ Closed) =>
       /\ rb'[n] = "resolved"
       /\ UNCHANGED <<db, currentTransaction, transactionPromise,
                      resolveTransaction, outer, inner, txp, chain, cb, dbv,
                      callv, td, rbAwait>>

\* C27: a rollbackTransaction call made on a CLOSED coordinator resolves at
\* once, invokes neither the cleanup routine nor a trigger and changes no
\* field; so a second call right after a first changes nothing
C27_RollbackOnClosed == [][C27_Step]_vars

C27_Witness ==
  /\ hasTeardown
  /\ rb[1] = "resolved"
  /\ rbAwait[1] = 1
  /\ teardownCalls[1] = <<1>>
  /\ txState[1] = "aborted"
  /\ rb[2] = "resolved"
  /\ rbAwait[2] = NULL
  /\ teardownCalls[2] = <<>>

\* C28: no rollbackTransaction call rejects and no stored transactionPromise
\* rejects, whatever the seed routine, the cleanup routine and db.transaction
\* do and whenever the call is made; a call that awaited a transactionPromise
\* and resolved found it fulfilled
C28_RollbackNeverRejects ==
  \A n \in Tests :
    /\ rb[n] # "rejected"
    /\ chain[n].st # "rejected"
    /\ (rb[n] = "resolved" /\ rbAwait[n] # NULL) =>
         chain[rbAwait[n]].st = "fulfilled"

C28_Witness ==
  /\ cb[1] = "failed"
  /\ txp[1].st = "rejected"
  /\ txp[1].reason = "SeedError"
  /\ td[1] = "failed"
  /\ rb[1] = "resolved"
  /\ rbAwait[1] = 1

\* C29: with setupDrizzleEnvironment called more than once, a read of
\* vitestDrizzle.client made while a test body runs returns the handle of an
\* open transaction that was opened for that test
C29_GlobalSlotLive ==
  (obs.kind = "read" /\ phase \in {"test", "outside"}) =>
     /\ obs.h = cur
     /\ obs.h \in Tests
     /\ txState[cur] = "open"

====
